---- MODULE Spec2Model ----
(***************************************************************************)
(* Model of the update orchestration of TraversabilityEstimation.cpp:      *)
(* the acquisition-mode flag, the pull / push / load paths that feed the   *)
(* traversability engine, the update service and the footprint-path batch  *)
(* check.  The callbacks are independently triggered and share the flag    *)
(* and the engine without any lock of their own (the readiness loop of the *)
(* update service waits for another callback to compute), so every         *)
(* callback is a process whose steps interleave with the others at each    *)
(* access to shared state and at each blocking call.                       *)
(***************************************************************************)
EXTENDS Naturals, Sequences, FiniteSets, TLC

\* Number of distinct grid geometries a provider, a frame or a bag may carry.
MaxGeom == 2
\* Longest footprint-path request of the batch check.
MaxPaths == 3
\* Number of distinct footprint paths a caller may send.
MaxPathId == 2

Geoms == 1..MaxGeom
PathIds == 1..MaxPathId

\* A grid payload: where it came from and its grid geometry
\* (resolution, length, position).  NoMap is a default-constructed one.
NoMap == [src |-> "none", geom |-> 0]
Payload(s, g) == [src |-> s, geom |-> g]

\* Threads: the update timer, the update service, the image subscriber,
\* the load service, the footprint-path service, the get-submap service and
\* the save service.
Callers == {"timer", "upd"}
Threads == Callers \cup {"img", "load", "path", "map", "save"}

VARIABLES
  updateDurationZero,   \* updateDuration_.isZero(): configuration, fixed
  getImageCallback_,    \* acquisition mode flag: FALSE = PULL, TRUE = PUSH
  imageGridMap_,        \* the accumulated image grid map
  elevationMap,         \* engine: its elevation input
  traversabilityMap,    \* engine: its traversability payload
  traversabilityMapInitialized, \* engine: readiness
  pc,                   \* position of every thread
  run,                  \* per caller: the current updateTraversability call
  svc,                  \* the current updateServiceCallback call
  image,                \* the frame the image callback is handling
  ld,                   \* the current loadElevationMap call
  chk,                  \* the current checkFootprintPath call
  qry,                  \* the last getTraversabilityMap call
  sav,                  \* the last saveToBag call
  pushed                \* a streamed frame has been handed to the engine

vars == <<updateDurationZero, getImageCallback_, imageGridMap_, elevationMap,
          traversabilityMap, traversabilityMapInitialized, pc, run, svc,
          image, ld, chk, qry, sav, pushed>>

engine == <<elevationMap, traversabilityMap, traversabilityMapInitialized>>

\* The record of one updateTraversability call: the mode seen at entry and
\* at line 193, the outcome of every step taken, the local elevationMap.
NoRun == [entry |-> "none", mode |-> "none", exist |-> "none", tf |-> "none",
          call |-> "none", local |-> NoMap, handed |-> FALSE,
          compute |-> "none", ret |-> "none"]
Mode(flag) == IF flag THEN "PUSH" ELSE "PULL"
Outcome(ok) == IF ok THEN "ok" ELSE "fail"

\* The record of one updateServiceCallback call.
NoInfo == [frame |-> "none", geom |-> 0]
NoSvc == [calls |-> 0, polled |-> FALSE, response |-> NoInfo, ret |-> "none"]

NoLoad == [bag |-> NoMap, read |-> "none", map |-> NoMap, compute |-> "none",
           ret |-> "none"]
NoChk == [path |-> << >>, j |-> 0, result |-> << >>, log |-> << >>, ret |-> "none"]

\* A grid map message of the get-submap response: the layers it names, its
\* geometry and whether it holds cell data.  NoMsg is an unwritten one.
NoMsg == [layers |-> {}, geom |-> 0, cells |-> FALSE]
NoQry == [region |-> "none", layers |-> {}, map |-> NoMap, isSuccess |-> FALSE,
          response |-> NoMsg, ret |-> "none"]
NoSav == [written |-> NoMap, ret |-> "none"]

Init ==
  /\ updateDurationZero \in BOOLEAN
  /\ getImageCallback_ = FALSE
  /\ imageGridMap_ = NoMap
  /\ elevationMap = NoMap
  /\ traversabilityMap = NoMap
  /\ traversabilityMapInitialized = FALSE
  /\ pc = [t \in Threads |-> "idle"]
  /\ run = [t \in Callers |-> NoRun]
  /\ svc = NoSvc
  /\ image = 0
  /\ ld = NoLoad
  /\ chk = NoChk
  /\ qry = NoQry
  /\ sav = NoSav
  /\ pushed = FALSE

-----------------------------------------------------------------------------
(* The traversability engine (traversabilityMap_), at its interface.        *)

\* The traversability payload the engine derives from an elevation input:
\* other layers, same grid geometry.
TraversabilityOf(e) == [src |-> "traversability", from |-> e.src, geom |-> e.geom]

\* setElevationMap(msg): replaces the engine's input wholesale.
setElevationMap(msg) ==
  /\ elevationMap' = msg
  /\ UNCHANGED <<traversabilityMap, traversabilityMapInitialized>>

\* A failed compute that drops the payload it held.
computeTraversability_clears(ok) ==
  /\ elevationMap # NoMap \/ ~ok
  /\ traversabilityMap' = IF ok THEN TraversabilityOf(elevationMap) ELSE NoMap
  /\ traversabilityMapInitialized' = ok
  /\ UNCHANGED elevationMap

\* computeTraversability(): derives the traversability payload from the
\* current input; a failure leaves the payload held before untouched.  It
\* cannot succeed without an input.  Ready once a compute has succeeded.
computeTraversability(ok) ==
  /\ elevationMap # NoMap \/ ~ok
  /\ traversabilityMap' = IF ok THEN TraversabilityOf(elevationMap) ELSE traversabilityMap
  /\ traversabilityMapInitialized' = (traversabilityMapInitialized \/ ok)
  /\ UNCHANGED elevationMap

\* getMapFrameId(): the engine's configured reference frame.
getMapFrameId == "map"

-----------------------------------------------------------------------------
(* updateTraversability(), called by the timer and by the update service.   *)

\* Line 163: the update service goes on to the readiness wait only when its
\* updateTraversability() call succeeded, and returns false otherwise.
svcAfterUpdate_ignores(ok) == "s_poll"
svcAfterUpdate(ok) == IF ok THEN "s_poll" ELSE "idle"

\* updateTraversability() returns `ok` to caller t, its record being r.
\* The timer callback drops the result; the update service tests it.
Return(t, r, ok) ==
  /\ run' = [run EXCEPT ![t] = [r EXCEPT !.ret = Outcome(ok)]]
  /\ pc' = [pc EXCEPT ![t] = IF t = "upd" THEN svcAfterUpdate(ok) ELSE "idle"]
  /\ svc' = IF t = "upd" /\ svcAfterUpdate(ok) = "idle"
              THEN [svc EXCEPT !.ret = "fail"] ELSE svc

\* Entry of updateTraversability() by caller t.
Enter(t) ==
  /\ pc' = [pc EXCEPT ![t] = "u_mode"]
  /\ run' = [run EXCEPT ![t] = [NoRun EXCEPT !.entry = Mode(getImageCallback_)]]

\* Line 193 with the test inverted: pulls once frames are streamed.
UpdBranch_inverted(flag) == IF flag THEN "u_wait" ELSE "u_compute"
\* Line 193: if (!getImageCallback_) pull, else compute only.
UpdBranch(flag) == IF flag THEN "u_compute" ELSE "u_wait"

UpdReadMode(t) ==
  /\ pc[t] = "u_mode"
  /\ run' = [run EXCEPT ![t].mode = Mode(getImageCallback_)]
  /\ pc' = [pc EXCEPT ![t] = UpdBranch(getImageCallback_)]
  /\ UNCHANGED <<qry, sav, pushed, updateDurationZero, getImageCallback_, imageGridMap_, engine,
                 svc, image, ld, chk>>

\* A wait for the provider that is tried again when it times out.
UpdWaitForExistence_retries(t) ==
  /\ pc[t] = "u_wait"
  /\ \E ok \in BOOLEAN :
       /\ run' = [run EXCEPT ![t].exist = Outcome(ok)]
       /\ pc' = [pc EXCEPT ![t] = IF ok THEN "u_tf" ELSE "u_wait"]
  /\ UNCHANGED <<qry, sav, pushed, updateDurationZero, getImageCallback_, imageGridMap_,
                 engine, svc, image, ld, chk>>

\* Line 195: waitForExistence(2 s) of the submap provider.
UpdWaitForExistence(t) ==
  /\ pc[t] = "u_wait"
  /\ \E ok \in BOOLEAN :
       IF ok
         THEN /\ run' = [run EXCEPT ![t].exist = "ok"]
              /\ pc' = [pc EXCEPT ![t] = "u_tf"]
              /\ svc' = svc
         ELSE Return(t, [run[t] EXCEPT !.exist = "fail"], FALSE)
  /\ UNCHANGED <<qry, sav, pushed, updateDurationZero, getImageCallback_, imageGridMap_, engine,
                 image, ld, chk>>

\* A lookup whose failure is logged and the pull goes on regardless.
UpdTransformPoint_goes_on(t) ==
  /\ pc[t] = "u_tf"
  /\ \E ok \in BOOLEAN :
       /\ run' = [run EXCEPT ![t].tf = Outcome(ok)]
       /\ pc' = [pc EXCEPT ![t] = "u_call"]
       /\ svc' = svc
  /\ UNCHANGED <<qry, sav, pushed, updateDurationZero, getImageCallback_, imageGridMap_, engine,
                 image, ld, chk>>

\* Lines 242-251 of requestElevationMap: the transform of the submap point.
UpdTransformPoint(t) ==
  /\ pc[t] = "u_tf"
  /\ \E ok \in BOOLEAN :
       IF ok
         THEN /\ run' = [run EXCEPT ![t].tf = "ok"]
              /\ pc' = [pc EXCEPT ![t] = "u_call"]
              /\ svc' = svc
         ELSE Return(t, [run[t] EXCEPT !.tf = "fail"], FALSE)
  /\ UNCHANGED <<qry, sav, pushed, updateDurationZero, getImageCallback_, imageGridMap_, engine,
                 image, ld, chk>>

\* Lines 253-264 of requestElevationMap: the call of the submap service;
\* on success the response map becomes the caller's local elevationMap.
UpdCallSubmap(t) ==
  /\ pc[t] = "u_call"
  /\ \E ok \in BOOLEAN, g \in Geoms :
       IF ok
         THEN /\ run' = [run EXCEPT ![t].call = "ok", ![t].local = Payload("pull", g)]
              /\ pc' = [pc EXCEPT ![t] = "u_set"]
              /\ svc' = svc
         ELSE Return(t, [run[t] EXCEPT !.call = "fail"], FALSE)
  /\ UNCHANGED <<qry, sav, pushed, updateDurationZero, getImageCallback_, imageGridMap_, engine,
                 image, ld, chk>>

\* Line 200: the pulled map becomes the engine's input.
UpdSetElevationMap(t) ==
  /\ pc[t] = "u_set"
  /\ setElevationMap(run[t].local)
  /\ run' = [run EXCEPT ![t].handed = TRUE]
  /\ pc' = [pc EXCEPT ![t] = "u_compute"]
  /\ UNCHANGED <<qry, sav, pushed, updateDurationZero, getImageCallback_, imageGridMap_,
                 svc, image, ld, chk>>

\* updateTraversability() returning true whatever compute answered.
UpdResult_always(ok) == TRUE
\* Lines 201, 207 and 210: the result is that of computeTraversability().
UpdResult(ok) == ok

\* Lines 201 and 207: computeTraversability(), then the return.
UpdCompute(t) ==
  /\ pc[t] = "u_compute"
  /\ \E ok \in BOOLEAN :
       /\ computeTraversability(ok)
       /\ Return(t, [run[t] EXCEPT !.compute = Outcome(ok)], UpdResult(ok))
  /\ UNCHANGED <<qry, sav, pushed, updateDurationZero, getImageCallback_, imageGridMap_,
                 image, ld, chk>>

updateTraversability(t) ==
  \/ UpdReadMode(t)
  \/ UpdWaitForExistence(t)
  \/ UpdTransformPoint(t)
  \/ UpdCallSubmap(t)
  \/ UpdSetElevationMap(t)
  \/ UpdCompute(t)

\* Lines 35-37 and 155-158: the timer, armed when the update rate is not
\* zero, calls updateTraversability().
updateTimerCallback ==
  /\ ~updateDurationZero
  /\ pc["timer"] = "idle"
  /\ Enter("timer")
  /\ UNCHANGED <<qry, sav, pushed, updateDurationZero, getImageCallback_, imageGridMap_, engine,
                 svc, image, ld, chk>>

-----------------------------------------------------------------------------
(* updateServiceCallback(): the update_traversability service.              *)

\* The update service calling updateTraversability() at every update rate.
svcCallsUpdate_always(zero) == TRUE
\* Line 162: updateTraversability() is called only when the rate is zero.
svcCallsUpdate(zero) == zero

\* Lines 160-163: entry; with a zero update rate, calls updateTraversability().
SvcStart ==
  /\ pc["upd"] = "idle"
  /\ IF svcCallsUpdate(updateDurationZero)
       THEN /\ svc' = [NoSvc EXCEPT !.calls = 1]
            /\ Enter("upd")
       ELSE /\ svc' = NoSvc
            /\ pc' = [pc EXCEPT !["upd"] = "s_poll"]
            /\ run' = run
  /\ UNCHANGED <<qry, sav, pushed, updateDurationZero, getImageCallback_, imageGridMap_, engine,
                 image, ld, chk>>

\* A readiness loop that also waits for a streamed frame to have arrived.
SvcPoll_waits_for_frame ==
  /\ pc["upd"] = "s_poll"
  /\ svc' = [svc EXCEPT !.polled = TRUE]
  /\ pc' = [pc EXCEPT !["upd"] = IF traversabilityMapInitialized /\ pushed
                                    THEN "s_fill" ELSE "s_poll"]
  /\ UNCHANGED <<qry, sav, pushed, updateDurationZero, getImageCallback_, imageGridMap_, engine,
                 run, image, ld, chk>>

\* Lines 169-171: one test of the engine's readiness; sleeps and tests
\* again while the engine is not ready.
SvcPoll ==
  /\ pc["upd"] = "s_poll"
  /\ svc' = [svc EXCEPT !.polled = TRUE]
  /\ pc' = [pc EXCEPT !["upd"] = IF traversabilityMapInitialized THEN "s_fill" ELSE "s_poll"]
  /\ UNCHANGED <<qry, sav, pushed, updateDurationZero, getImageCallback_, imageGridMap_, engine,
                 run, image, ld, chk>>

\* Lines 175-185: the map info of a traversability map.
MapInfo(map) == [frame |-> getMapFrameId, geom |-> map.geom]

\* Lines 172-187: copies the engine's traversability map, fills the
\* response with its info and returns true.
SvcFill ==
  /\ pc["upd"] = "s_fill"
  /\ svc' = [svc EXCEPT !.response = MapInfo(traversabilityMap), !.ret = "ok"]
  /\ pc' = [pc EXCEPT !["upd"] = "idle"]
  /\ UNCHANGED <<qry, sav, pushed, updateDurationZero, getImageCallback_, imageGridMap_, engine,
                 run, image, ld, chk>>

updateServiceCallback == SvcStart \/ SvcPoll \/ SvcFill

-----------------------------------------------------------------------------
(* imageCallback(): a streamed elevation frame of grid geometry f.          *)

\* The first frame handled without raising the flag.
FlagAfterFrame_unset(flag) == flag
\* Line 147: getImageCallback_ = true (lines 141-148 run when it is false).
FlagAfterFrame(flag) == TRUE

\* Lines 139-148: on the first frame, initializes the image grid map from
\* the frame's geometry and raises the flag.
ImgFirst ==
  /\ pc["img"] = "idle"
  /\ \E f \in Geoms :
       /\ image' = f
       /\ imageGridMap_' = IF getImageCallback_ THEN imageGridMap_ ELSE Payload("push", f)
  /\ getImageCallback_' = FlagAfterFrame(getImageCallback_)
  /\ pc' = [pc EXCEPT !["img"] = "i_set"]
  /\ UNCHANGED <<qry, sav, pushed, updateDurationZero, engine, run, svc, ld, chk>>

\* A hand-over that also computes traversability for the frame.
ImgSetElevationMap_computes ==
  /\ pc["img"] = "i_set"
  /\ \E ok \in BOOLEAN :
       /\ elevationMap' = Payload("push", imageGridMap_.geom)
       /\ traversabilityMap' = IF ok THEN TraversabilityOf(elevationMap')
                                     ELSE traversabilityMap
       /\ traversabilityMapInitialized' = (traversabilityMapInitialized \/ ok)
  /\ pc' = [pc EXCEPT !["img"] = "idle"]
  /\ image' = 0
  /\ pushed' = TRUE
  /\ UNCHANGED <<qry, sav, updateDurationZero, getImageCallback_, imageGridMap_,
                 run, svc, ld, chk>>

\* Lines 149-152: the frame becomes the elevation layer of the image grid
\* map, whose message becomes the engine's input.
ImgSetElevationMap ==
  /\ pc["img"] = "i_set"
  /\ setElevationMap(Payload("push", imageGridMap_.geom))
  /\ pc' = [pc EXCEPT !["img"] = "idle"]
  /\ image' = 0
  /\ pushed' = TRUE
  /\ UNCHANGED <<qry, sav, updateDurationZero, getImageCallback_, imageGridMap_,
                 run, svc, ld, chk>>

imageCallback == ImgFirst \/ ImgSetElevationMap

-----------------------------------------------------------------------------
(* loadElevationMap(): the load_elevation_map service.                      *)

\* Lines 51-53: the layers the engine's input must have.
ElevationMapLayers == {"elevation", "upper_bound", "lower_bound"}

\* The layer sets a persisted map is drawn with: complete, and with two
\* required layers missing beside a layer the engine does not ask for.
BagLayerSets == {ElevationMapLayers, {"elevation", "variance"}}

\* A map as read from the bag: its own layers, none of them zero-filled.
BagMap(g, layers) == [src |-> "load", geom |-> g, layers |-> layers, zero |-> {}]

\* A load that hands the map over as it was read.
AddMissingLayers_none(map) == map
\* Lines 115-120: every required layer the map lacks is added with 0.0.
AddMissingLayers(map) ==
  [map EXCEPT !.layers = map.layers \cup ElevationMapLayers,
              !.zero = ElevationMapLayers \ map.layers]

\* Lines 111-120: loadFromBag(); a failed read returns false at once, a
\* successful one is completed with the missing layers.
LoadFromBag ==
  /\ pc["load"] = "idle"
  /\ \E ok \in BOOLEAN, g \in Geoms, layers \in BagLayerSets :
       IF ok
         THEN /\ ld' = [NoLoad EXCEPT !.bag = BagMap(g, layers), !.read = "ok",
                                      !.map = AddMissingLayers(BagMap(g, layers))]
              /\ pc' = [pc EXCEPT !["load"] = "l_set"]
         ELSE /\ ld' = [NoLoad EXCEPT !.read = "fail", !.ret = "fail"]
              /\ pc' = pc
  /\ UNCHANGED <<qry, sav, pushed, updateDurationZero, getImageCallback_, imageGridMap_, engine,
                 run, svc, image, chk>>

\* Line 131: the loaded map becomes the engine's input.
LoadSetElevationMap ==
  /\ pc["load"] = "l_set"
  /\ setElevationMap(ld.map)
  /\ pc' = [pc EXCEPT !["load"] = "l_compute"]
  /\ UNCHANGED <<qry, sav, pushed, updateDurationZero, getImageCallback_, imageGridMap_,
                 run, svc, image, ld, chk>>

\* Lines 132-136: computeTraversability(), whose result is returned.
LoadCompute ==
  /\ pc["load"] = "l_compute"
  /\ \E ok \in BOOLEAN :
       /\ computeTraversability(ok)
       /\ ld' = [ld EXCEPT !.compute = Outcome(ok), !.ret = Outcome(ok)]
  /\ pc' = [pc EXCEPT !["load"] = "idle"]
  /\ UNCHANGED <<qry, sav, pushed, updateDurationZero, getImageCallback_, imageGridMap_,
                 run, svc, image, chk>>

loadElevationMap == LoadFromBag \/ LoadSetElevationMap \/ LoadCompute

-----------------------------------------------------------------------------
(* The update orchestration: timer, update service, frames and loads.       *)

Next ==
  \/ updateTimerCallback
  \/ \E t \in Callers : updateTraversability(t)
  \/ updateServiceCallback
  \/ imageCallback
  \/ loadElevationMap

Spec == Init /\ [][Next]_vars

-----------------------------------------------------------------------------
(* checkFootprintPath(): the check_footprint_path service.                  *)

\* The requests: every sequence of at most MaxPaths footprint paths.
PathSeqs == UNION {[1..n -> PathIds] : n \in 0..MaxPaths}

\* The engine's checkFootprintPath(path, result, true): the result it
\* writes for a path, `safe` being its verdict.
TraversabilityResult(path, safe) == [path |-> path, is_safe |-> safe]

\* An empty request let through to the loop.
NoPaths_never(nPaths) == FALSE
\* Line 281: if (nPaths == 0).
NoPaths(nPaths) == nPaths = 0

\* Lines 276-286: entry; an empty request returns false.  j counts the
\* paths from 1 where the code counts them from 0.
CheckStart ==
  /\ pc["path"] = "idle"
  /\ \E p \in PathSeqs :
       /\ chk' = [NoChk EXCEPT !.path = p, !.j = 1,
                    !.ret = IF NoPaths(Len(p)) THEN "fail"
                            ELSE IF Len(p) = 0 THEN "ok" ELSE "none"]
       /\ pc' = [pc EXCEPT !["path"] = IF Len(p) = 0 THEN "idle" ELSE "c_check"]
  /\ UNCHANGED <<qry, sav, pushed, updateDurationZero, getImageCallback_, imageGridMap_, engine,
                 run, svc, image, ld>>

\* A failed path check that does not end the batch.
CheckAborts_never(ok) == FALSE
\* Lines 290-291: a failed path check returns false at once.
CheckAborts(ok) == ~ok

\* The result put in front of the list.
PushBack_front(list, r) == <<r>> \o list
\* Line 292: response.result.push_back(result).
PushBack(list, r) == Append(list, r)

\* Lines 288-295: the check of path j by the engine; a failure returns
\* false, a success appends the result and goes on to the next path, and
\* the loop's end returns true.  log records what the engine was asked.
CheckOne ==
  /\ pc["path"] = "c_check"
  /\ \E ok \in BOOLEAN, safe \in BOOLEAN :
       LET path == chk.path[chk.j]
           result == TraversabilityResult(path, safe)
           log == Append(chk.log, [path |-> path, ok |-> ok, result |-> result])
       IN IF CheckAborts(ok)
            THEN /\ chk' = [chk EXCEPT !.log = log, !.ret = "fail"]
                 /\ pc' = [pc EXCEPT !["path"] = "idle"]
            ELSE /\ chk' = [chk EXCEPT !.log = log, !.j = chk.j + 1,
                              !.result = PushBack(chk.result, result),
                              !.ret = IF chk.j = Len(chk.path) THEN "ok" ELSE "none"]
                 /\ pc' = [pc EXCEPT !["path"] =
                             IF chk.j = Len(chk.path) THEN "idle" ELSE "c_check"]
  /\ UNCHANGED <<qry, sav, pushed, updateDurationZero, getImageCallback_, imageGridMap_, engine,
                 run, svc, image, ld>>

checkFootprintPath == CheckStart \/ CheckOne

\* The footprint-path service alone: its result depends on no other
\* callback's state.
NextPath == checkFootprintPath

SpecPath == Init /\ [][NextPath]_vars

-----------------------------------------------------------------------------
(* Properties of the update orchestration (checked under Spec).             *)

\* The positions of a caller inside updateTraversability().
UpdPcs == {"u_mode", "u_wait", "u_tf", "u_call", "u_set", "u_compute"}

\* A frame arrives: the image callback starts.
FrameArrives == pc["img"] = "idle" /\ pc'["img"] = "i_set"

\* C1: the acquisition mode flag starts as PULL, is PUSH after every
\* streamed-frame arrival (so from the first one on), changes at no other
\* step, and never goes back from PUSH to PULL, whatever triggerUpdate,
\* load and service steps are interleaved.
C1_ModeOneWay ==
  /\ getImageCallback_ = FALSE
  /\ [][ /\ (getImageCallback_ => getImageCallback_')
         /\ (FrameArrives => getImageCallback_')
         /\ (getImageCallback_' # getImageCallback_ => FrameArrives) ]_vars

\* A triggerUpdate ran from entry to return in PUSH mode, a load completed,
\* and a further frame is being handled: the flag is still PUSH.
C1_Witness ==
  /\ getImageCallback_
  /\ \E t \in Callers : run[t].entry = "PUSH" /\ run[t].ret # "none"
  /\ ld.ret = "ok"
  /\ pc["img"] = "i_set"

\* C2: a triggerUpdate call entered in PUSH mode waits for no provider, looks
\* up no transform and sends no pull request, and its result is the result
\* of the engine's compute alone.
C2_PushSkipsProvider ==
  \A t \in Callers :
    run[t].entry = "PUSH" =>
      /\ run[t].mode \in {"none", "PUSH"}
      /\ run[t].exist = "none" /\ run[t].tf = "none" /\ run[t].call = "none"
      /\ run[t].local = NoMap /\ ~run[t].handed
      /\ pc[t] \in UpdPcs => pc[t] \in {"u_mode", "u_compute"}
      /\ run[t].ret # "none" => run[t].compute # "none" /\ run[t].ret = run[t].compute

\* A triggerUpdate entered in PUSH mode has returned success.
C2_Witness ==
  \E t \in Callers : run[t].entry = "PUSH" /\ run[t].ret = "ok"

\* C3: triggerUpdate returns success exactly when compute was invoked in the
\* call and succeeded; in PULL mode compute is invoked only after the
\* provider existed, the transform resolved and the pull call succeeded; and
\* each of the four failures makes the call return failure.
C3_SuccessIffCompute ==
  \A t \in Callers :
    /\ run[t].ret # "none" => (run[t].ret = "ok" <=> run[t].compute = "ok")
    /\ (run[t].compute # "none" /\ run[t].mode = "PULL") =>
         run[t].exist = "ok" /\ run[t].tf = "ok" /\ run[t].call = "ok" /\ run[t].handed
    /\ ("fail" \in {run[t].exist, run[t].tf, run[t].call, run[t].compute}) =>
         run[t].ret = "fail"

\* A PULL-mode call went through provider, transform, pull and compute and
\* returned success.
C3_Witness ==
  \E t \in Callers :
    run[t].mode = "PULL" /\ run[t].call = "ok" /\ run[t].compute = "ok" /\ run[t].ret = "ok"

\* C4: no step of a triggerUpdate call other than a successful compute
\* changes the engine's traversability payload or its readiness; so a call
\* that fails in compute leaves the payload held before it, and a query
\* right after the failure reads that payload.
C4_FailedComputeKeepsPayload ==
  [][ \A t \in Callers :
        (run'[t] # run[t] /\ run'[t].compute # "ok") =>
           /\ traversabilityMap' = traversabilityMap
           /\ traversabilityMapInitialized' = traversabilityMapInitialized ]_vars

\* A PULL-mode call replaced the engine's input by the pulled payload and
\* failed in compute; the engine still holds, ready, a payload derived from
\* another input.
C4_Witness ==
  \E t \in Callers :
    /\ run[t].mode = "PULL" /\ run[t].handed /\ run[t].compute = "fail"
    /\ run[t].ret = "fail"
    /\ elevationMap = run[t].local
    /\ traversabilityMapInitialized
    /\ traversabilityMap # TraversabilityOf(run[t].local)

-----------------------------------------------------------------------------
(* Properties of the footprint-path batch check (checked under SpecPath).   *)

\* The results the engine wrote for the first n checks of the call.
LoggedResults(n) == [i \in 1..n |-> chk.log[i].result]

\* C5: a checkFootprintPath call with an empty path sequence returns
\* failure, asks the engine for no path check and leaves the response's
\* result list empty.
C5_EmptyRejected ==
  (pc["path"] = "idle" /\ chk.ret # "none" /\ Len(chk.path) = 0) =>
     chk.ret = "fail" /\ chk.log = << >> /\ chk.result = << >>

\* A call with an empty path sequence has returned.
C5_Witness ==
  pc["path"] = "idle" /\ chk.ret = "fail" /\ chk.path = << >>

\* C6: a call with N >= 1 paths that returns with none of its engine checks
\* failed returns success; the engine was asked once for each path, in input
\* order, and the response holds exactly the N results it gave, in that order.
C6_AllResultsInOrder ==
  (/\ chk.ret # "none" /\ Len(chk.path) >= 1
   /\ \A i \in 1..Len(chk.log) : chk.log[i].ok) =>
     /\ chk.ret = "ok"
     /\ Len(chk.log) = Len(chk.path)
     /\ \A i \in 1..Len(chk.path) : chk.log[i].path = chk.path[i]
     /\ chk.result = LoggedResults(Len(chk.path))

\* A call with at least two paths returned success with results that
\* differ, so that their order shows.
C6_Witness ==
  /\ chk.ret = "ok" /\ Len(chk.path) >= 2
  /\ chk.result[1] # chk.result[2]
  /\ chk.path[1] # chk.path[2]

-----------------------------------------------------------------------------
(* Properties of the update service (checked under Spec).                   *)

\* The update service has returned.
SvcReturned == pc["upd"] = "idle" /\ svc.ret # "none"

\* C8: with a zero update rate the update service calls triggerUpdate once,
\* before it polls readiness or fills the response; and when that call
\* fails it has returned failure without having polled readiness and with
\* the response unfilled.
C8_UpdateFirstOrFail ==
  updateDurationZero =>
    /\ (pc["upd"] # "idle" \/ svc.ret # "none") => svc.calls = 1
    /\ pc["upd"] \in UpdPcs =>
         ~svc.polled /\ svc.response = NoInfo /\ svc.ret = "none"
    /\ (svc.polled \/ svc.response # NoInfo) => run["upd"].ret = "ok"
    /\ run["upd"].ret = "fail" =>
         /\ SvcReturned /\ svc.ret = "fail"
         /\ ~svc.polled /\ svc.response = NoInfo

\* With a zero update rate, the service's triggerUpdate call failed in
\* compute and the service has returned failure.
C8_Witness ==
  /\ updateDurationZero
  /\ run["upd"].compute = "fail"
  /\ SvcReturned /\ svc.ret = "fail"

\* C9 as claimed: every invocation of the update service that has returned
\* ran one triggerUpdate inside the call, at every update rate, and reported
\* the geometry of its result.
C9_AlwaysOneCycle ==
  SvcReturned =>
    /\ svc.calls = 1 /\ run["upd"].ret # "none"
    /\ svc.ret = "ok" => svc.response # NoInfo

\* C9 as the code has it: with a zero update rate an invocation runs exactly
\* one triggerUpdate inside the call and reports a geometry only if that run
\* succeeded; with a non-zero rate it runs none, returns success and reports
\* the geometry of the payload the engine holds once it is ready.
C9_OneCycleOnlyAtRateZero ==
  /\ (pc["upd"] # "idle" \/ svc.ret # "none") =>
        svc.calls = (IF updateDurationZero THEN 1 ELSE 0)
  /\ ~updateDurationZero => run["upd"] = NoRun
  /\ SvcReturned =>
       /\ svc.ret = "ok" =>
            /\ svc.polled
            /\ svc.response.frame = getMapFrameId /\ svc.response.geom \in Geoms
            /\ updateDurationZero => run["upd"].ret = "ok"
       /\ svc.ret = "fail" =>
            /\ updateDurationZero /\ run["upd"].ret = "fail"
            /\ svc.response = NoInfo

\* With a non-zero update rate an invocation returned a geometry without
\* having run any triggerUpdate, the payload being a timer update's.
C9_Witness ==
  /\ ~updateDurationZero
  /\ SvcReturned /\ svc.ret = "ok" /\ svc.calls = 0
  /\ run["timer"].ret = "ok"

\* C10: after the update service's triggerUpdate pulled an elevation payload
\* and succeeded, the map info the service returns is that of the
\* traversability payload derived from that elevation payload.
C10_InfoOfOwnUpdate ==
  (/\ updateDurationZero /\ SvcReturned /\ svc.ret = "ok"
   /\ run["upd"].mode = "PULL" /\ run["upd"].ret = "ok") =>
     svc.response = MapInfo(TraversabilityOf(run["upd"].local))

-----------------------------------------------------------------------------
(* getTraversabilityMap() and saveToBag(): the get_traversability and       *)
(* save_to_bag services.  Each reads the engine's payload once and works on *)
(* its copy, so each is one step.                                           *)

\* Lines 24-27: the layers of a computed traversability map; a map that was
\* never computed has none.
TraversabilityLayers == {"traversability", "traversability_slope",
                         "traversability_step", "traversability_roughness"}
LayersOf(map) == IF map = NoMap THEN {} ELSE TraversabilityLayers

\* The requested regions: one the map can represent, one it cannot.
Regions == {"inside", "outside"}

\* Line 308, grid_map's getSubmap(position, length, isSuccess): succeeds
\* when the map can represent the region, and otherwise returns an empty
\* map that only names the layers.
SubmapSuccess(map, region) == map # NoMap /\ region = "inside"
Submap(map, region) ==
  [layers |-> LayersOf(map),
   geom |-> IF SubmapSuccess(map, region) THEN map.geom ELSE 0,
   cells |-> SubmapSuccess(map, region)]

\* Lines 309-317, toMessage: the message of a submap, with all its layers
\* when the request names none and with the named ones otherwise.
ToMessage(subMap, layers) ==
  [layers |-> IF layers = {} THEN subMap.layers ELSE layers,
   geom |-> subMap.geom, cells |-> subMap.cells]

\* Line 318: return isSuccess.
SubmapResult(isSuccess) == isSuccess

\* A handler that writes the response only after a successful extraction.
SubmapResponse_guarded(subMap, layers, isSuccess) ==
  IF isSuccess THEN ToMessage(subMap, layers) ELSE NoMsg
\* Lines 309-317: the response map is written before isSuccess is looked at.
SubmapResponse(subMap, layers, isSuccess) == ToMessage(subMap, layers)

\* Lines 298-319.  The request names only layers the map has.
getTraversabilityMap ==
  /\ pc["map"] = "idle"
  /\ \E region \in Regions, layers \in SUBSET LayersOf(traversabilityMap) :
       LET map == traversabilityMap
           isSuccess == SubmapSuccess(map, region)
           subMap == Submap(map, region)
       IN qry' = [region |-> region, layers |-> layers, map |-> map,
                  isSuccess |-> isSuccess,
                  response |-> SubmapResponse(subMap, layers, isSuccess),
                  ret |-> Outcome(SubmapResult(isSuccess))]
  /\ UNCHANGED <<sav, pushed, updateDurationZero, getImageCallback_, imageGridMap_,
                 engine, pc, run, svc, image, ld, chk>>

\* Line 324: the result is that of the storage write alone.
SaveResult(written, ready) == written

\* Lines 321-325: writes the engine's current traversability map to the bag.
saveToBag ==
  /\ pc["save"] = "idle"
  /\ \E written \in BOOLEAN :
       sav' = [written |-> IF written THEN traversabilityMap ELSE NoMap,
               ret |-> Outcome(SaveResult(written, traversabilityMapInitialized))]
  /\ UNCHANGED <<qry, pushed, updateDurationZero, getImageCallback_, imageGridMap_,
                 engine, pc, run, svc, image, ld, chk>>

\* The queries against the payload that loads compute.
NextQuery == loadElevationMap \/ getTraversabilityMap \/ saveToBag

SpecQuery == Init /\ [][NextQuery]_vars

-----------------------------------------------------------------------------
(* Properties of the queries (checked under SpecQuery).                     *)

\* C11: no query (get-map-info, get-submap, check-footprint-paths,
\* save-to-storage) has returned success while the engine has never been
\* ready.
C11_NoSuccessBeforeReady ==
  ("ok" \in {svc.ret, qry.ret, chk.ret, sav.ret}) => traversabilityMapInitialized

-----------------------------------------------------------------------------
(* Termination (checked under SpecFair).                                    *)

\* What the scheduling guarantees: a callback that has started goes on
\* running, its blocking calls return (the provider wait after its timeout
\* at the latest), and an armed timer fires.  Nothing makes a frame arrive
\* or a service be called.
Fairness ==
  /\ \A t \in Callers : WF_vars(updateTraversability(t))
  /\ WF_vars(updateTimerCallback)
  /\ WF_vars(SvcPoll) /\ WF_vars(SvcFill)
  /\ WF_vars(ImgSetElevationMap)

\* The callbacks of a running node: timer, trigger-update service and image
\* subscriber.  Loading a bag only writes engine state, which the control
\* flow of these callbacks reads through the readiness wait alone.
NextCallbacks ==
  \/ updateTimerCallback
  \/ \E t \in Callers : updateTraversability(t)
  \/ updateServiceCallback
  \/ imageCallback

SpecFair == Init /\ [][NextCallbacks]_vars /\ Fairness

\* The order of the positions inside updateTraversability(); 7 is outside.
UpdRank(p) ==
  CASE p = "u_mode" -> 1 [] p = "u_wait" -> 2 [] p = "u_tf" -> 3
    [] p = "u_call" -> 4 [] p = "u_set" -> 5 [] p = "u_compute" -> 6
    [] OTHER -> 7

\* C12: every step of a triggerUpdate call moves it strictly forward through
\* mode test, provider wait, transform lookup, pull request, hand-over and
\* compute (so each is done at most once and nothing is retried), and every
\* call that has started returns success or failure.
C12_UpdateTerminates ==
  /\ [][ \A t \in Callers :
           (pc[t] \in UpdPcs /\ (pc'[t] # pc[t] \/ run'[t] # run[t])) =>
              UpdRank(pc'[t]) > UpdRank(pc[t]) ]_vars
  /\ \A t \in Callers :
       (pc[t] \in UpdPcs) ~> (pc[t] \notin UpdPcs /\ run[t].ret # "none")

\* A call waited for the provider, looked up the transform, pulled, handed
\* the map over, computed once and has returned.
C12_Witness ==
  \E t \in Callers :
    /\ run[t].exist = "ok" /\ run[t].tf = "ok" /\ run[t].call = "ok"
    /\ run[t].handed /\ run[t].compute = "fail" /\ run[t].ret = "fail"
    /\ pc[t] \notin UpdPcs

\* C13: every get-map-info call that has started eventually returns, with
\* success or failure, whether or not the engine ever becomes ready.
C13_MapInfoReturns ==
  (pc["upd"] # "idle") ~> (pc["upd"] = "idle" /\ svc.ret # "none")

-----------------------------------------------------------------------------
(* The submap query (checked under SpecQuery).                              *)

-----------------------------------------------------------------------------
(* Loading a persisted elevation map (checked under SpecQuery).             *)

\* C15: load-elevation succeeds exactly when the read and the compute after
\* it both succeed; a required layer missing from the persisted map never
\* fails the load but is added zero-filled to the map that is handed to the
\* engine; a failed read returns failure with the engine untouched and no
\* compute.
C15_LoadElevation ==
  /\ [](/\ ld.ret # "none" =>
             (ld.ret = "ok" <=> (ld.read = "ok" /\ ld.compute = "ok"))
        /\ ld.read = "ok" =>
             /\ ld.map.layers = ld.bag.layers \cup ElevationMapLayers
             /\ ld.map.zero = ElevationMapLayers \ ld.bag.layers
             /\ ld.map.geom = ld.bag.geom
        /\ ld.read = "fail" => ld.ret = "fail" /\ ld.compute = "none")
  /\ [][ /\ (pc["load"] = "l_set" /\ pc'["load"] = "l_compute") =>
              elevationMap' = ld.map
         /\ (ld' # ld /\ ld'.read = "fail") =>
              /\ UNCHANGED engine
              /\ pc'["load"] = "idle" ]_vars

\* A map with required layers missing was loaded, handed over with the
\* layers zero-filled, computed, and the load succeeded.
C15_Witness ==
  /\ ld.ret = "ok" /\ ld.bag.layers = {"elevation", "variance"}
  /\ ld.map.zero = {"upper_bound", "lower_bound"}
  /\ elevationMap = ld.map
  /\ traversabilityMap = TraversabilityOf(ld.map)

-----------------------------------------------------------------------------
(* A failed transform lookup (checked under Spec).                          *)

\* C16: a triggerUpdate whose transform lookup fails returns failure at that
\* step: no pull request is sent, nothing is handed to the engine, compute
\* is not invoked, and the step leaves the engine's input, its payload and
\* readiness, the acquisition mode and the accumulated frame as they were.
C16_TransformFailureAborts ==
  /\ [](\A t \in Callers :
          run[t].tf = "fail" =>
            /\ run[t].ret = "fail" /\ run[t].mode = "PULL"
            /\ run[t].call = "none" /\ ~run[t].handed
            /\ run[t].compute = "none")
  /\ [][ \A t \in Callers :
           (pc[t] = "u_tf" /\ run'[t].tf = "fail") =>
              /\ pc'[t] \notin UpdPcs
              /\ UNCHANGED <<engine, getImageCallback_, imageGridMap_>> ]_vars

\* A lookup failed on an engine that held a computed payload, and the call
\* has returned failure.
C16_Witness ==
  \E t \in Callers :
    /\ run[t].tf = "fail" /\ run[t].ret = "fail" /\ pc[t] \notin UpdPcs
    /\ traversabilityMapInitialized /\ elevationMap # NoMap

-----------------------------------------------------------------------------
(* Streamed frames and the engine (checked under Spec).                     *)

\* The step of the image callback that hands the frame to the engine.
FrameHandedOver == pc["img"] = "i_set" /\ pc'["img"] = "idle"

C18_NoPullAfterPush ==
  [][(pushed /\ elevationMap' # elevationMap) => elevationMap'.src # "pull"]_vars

\* C19: whenever a triggerUpdate that took the no-pull branch asks the engine
\* to compute, a streamed frame has already been handed to the engine and
\* the engine's input is that pushed payload.
C19_PushComputeHasPushedInput ==
  [][ \A t \in Callers :
        (pc[t] = "u_compute" /\ run[t].mode = "PUSH" /\ run'[t].compute # "none")
           => (pushed /\ elevationMap.src = "push") ]_vars

-----------------------------------------------------------------------------
(* get-map-info without periodic updates (checked under SpecFairService).   *)

\* Only the service handler is sure to go on running: no timer tick, frame
\* or other callback is promised.
FairnessService ==
  /\ WF_vars(updateTraversability("upd"))
  /\ WF_vars(SvcPoll) /\ WF_vars(SvcFill)

SpecFairService == Init /\ [][NextCallbacks]_vars /\ FairnessService

\* C20: with the update rate zero, a get-map-info call reaches its readiness
\* loop only after its own triggerUpdate succeeded, the engine is ready
\* whenever it is in the loop, and every call returns (failure when its
\* triggerUpdate failed, success otherwise) with no other callback running.
C20_RateZeroMapInfoReturns ==
  /\ [](updateDurationZero /\ pc["upd"] \in {"s_poll", "s_fill"} =>
          /\ run["upd"].ret = "ok"
          /\ traversabilityMapInitialized)
  /\ [](updateDurationZero /\ svc.ret = "fail" => run["upd"].ret = "fail")
  /\ (updateDurationZero /\ pc["upd"] # "idle") ~>
       (pc["upd"] = "idle" /\ svc.ret # "none")

\* At rate zero a call's own update succeeded and the call returned the
\* info, with no frame ever received.
C20_Witness ==
  /\ updateDurationZero /\ pc["upd"] = "idle" /\ svc.ret = "ok"
  /\ svc.polled /\ run["upd"].ret = "ok" /\ ~pushed

====
